---- MODULE Spec2Model ----
(***************************************************************************)
(* Batch-job lifecycle of llm_extct_meta.py: the Batch Request Compiler    *)
(* (prepare_batch_file), the Submitter (submit_batch_job), the Status      *)
(* Reconciler (check_batch_status) and the Driver (process_all_pdfs),      *)
(* run against the external batch service and the files they keep on disk. *)
(*                                                                         *)
(* Python strings are modelled as sequences of one-character strings, so   *)
(* that formatting, str.split, str.replace and Path.stem are computed.     *)
(***************************************************************************)
EXTENDS Integers, Sequences, FiniteSets, TLC

\* ------------------------------------------------------------------ bounds
\* external batch jobs created in one behaviour
MaxJobs == 2
\* documents in the analyzed-data file
MaxDocs == 2
\* length of the identifiers enumerated for the correlation codec
MaxIdLen == 2
\* pages of one document given to the Batch Request Compiler on its own
MaxPages == 2
\* images of the larger OCR file: more than one wave of requests
MaxImages == 6
\* description requests that the service lets fail
MaxFailures == 1
\* runs of the image and table analysis over the same folders
MaxRuns == 2
\* largest --start_step given to the pipeline runner
MaxStartStep == 8

\* ------------------------------------------------- Python string functions
\* s[i:].startswith(sub), i counted from 1
StartsAt(s, sub, i) ==
    /\ i + Len(sub) - 1 <= Len(s)
    /\ \A k \in 1..Len(sub) : s[i + k - 1] = sub[k]

\* str.find from position i: index of the first occurrence, 0 when absent
RECURSIVE Find(_, _, _)
Find(s, sub, i) ==
    IF i + Len(sub) - 1 > Len(s) THEN 0
    ELSE IF StartsAt(s, sub, i) THEN i
    ELSE Find(s, sub, i + 1)

Contains(s, sub) == Find(s, sub, 1) # 0

\* str.rfind: index of the last occurrence of the character c, 0 when absent
RECURSIVE RFind(_, _, _)
RFind(s, c, i) ==
    IF i = 0 THEN 0
    ELSE IF s[i] = c THEN i
    ELSE RFind(s, c, i - 1)

Tail_from(s, i) == SubSeq(s, i, Len(s))

\* str.split(sep): the parts between the non-overlapping occurrences of sep,
\* scanned left to right
RECURSIVE Split(_, _)
Split(s, sep) ==
    LET i == Find(s, sep, 1)
    IN  IF i = 0 THEN << s >>
        ELSE << SubSeq(s, 1, i - 1) >> \o Split(Tail_from(s, i + Len(sep)), sep)

\* str.replace(old, ""): every non-overlapping occurrence removed
RECURSIVE Remove(_, _)
Remove(s, old) ==
    LET i == Find(s, old, 1)
    IN  IF i = 0 THEN s
        ELSE SubSeq(s, 1, i - 1) \o Remove(Tail_from(s, i + Len(old)), old)

\* PurePath.name: the last path component (of a path not ending in "/")
PathName(p) == Tail_from(p, RFind(p, "/", Len(p)) + 1)

\* PurePath.stem: the name without its last suffix
Stem(p) ==
    LET name == PathName(p)
        i == RFind(name, ".", Len(name))
    IN  IF 1 < i /\ i < Len(name) THEN SubSeq(name, 1, i - 1) ELSE name

\* ------------------------------------------------- correlation identifier
Separator == << "_", "_" >>
PagePrefix == << "p", "a", "g", "e", "-" >>

\* custom_id = f"{pdf_name}__page-{page}"
custom_id(pdf_name, page) == pdf_name \o Separator \o PagePrefix \o page

\* pdf, page_part = custom_id.split("__"): unpacking needs exactly two parts
SplitOk(cid) == Len(Split(cid, Separator)) = 2

\* decode_custom_id without the removal of "page-"
decode_custom_id_unstripped(cid) ==
    LET parts == Split(cid, Separator)
    IN  [pdf |-> parts[1], page |-> parts[2]]

\* page = page_part.replace("page-", "")
decode_custom_id(cid) ==
    LET parts == Split(cid, Separator)
    IN  [pdf |-> parts[1], page |-> Remove(parts[2], PagePrefix)]

\* output_file = f"{Path(pdf).stem}_metadata.json"
output_file(pdf) == Stem(pdf) \o << "_metadata.json" >>

\* --------------------------------------------------------- files and dicts
\* a mapping with no key (an empty dict, an empty directory)
EmptyMap == [x \in {} |-> x]

\* d[k] = v
Put(d, k, v) == [x \in DOMAIN d \cup {k} |-> IF x = k THEN v ELSE d[x]]

\* batch_info.json: absent, unparsable (truncated by a failed write), or a
\* Job Record. created_at is a timestamp and is left out.
NoFile == [kind |-> "absent"]
Partial == [kind |-> "partial"]
IsRecord(f) == f.kind = "record"

\* None, as returned by submit_batch_job and as batch.output_file_id
None == 0

\* ------------------------------------------------- Batch Request Compiler
\* contexts = prepare_context_for_llm(pages): one context per page, in the
\* order of the pages; the text of the context is not modelled
prepare_context_for_llm(pages) == pages

\* page_requests that stops after the first page
page_requests_first_page(pdf_name, pages) ==
    LET contexts == prepare_context_for_llm(pages)
    IN  [i \in 1..(IF Len(contexts) = 0 THEN 0 ELSE 1) |->
            [custom_id |-> custom_id(pdf_name, contexts[i])]]

\* the request lines of one document, one per page
page_requests(pdf_name, pages) ==
    LET contexts == prepare_context_for_llm(pages)
    IN  [i \in 1..Len(contexts) |-> [custom_id |-> custom_id(pdf_name, contexts[i])]]

\* batch_lines: the request lines of all documents in dict order
RECURSIVE batch_lines(_)
batch_lines(pdf_data) ==
    IF Len(pdf_data) = 0 THEN << >>
    ELSE page_requests(Head(pdf_data).pdf, Head(pdf_data).pages)
            \o batch_lines(Tail(pdf_data))

\* pdf_meta["pages"][page] = {"status": "queued"}
pdf_meta(pages) ==
    [pages |-> [p \in {pages[i] : i \in 1..Len(pages)} |-> [status |-> "queued"]]]

\* batch_metadata[pdf_name] = pdf_meta
batch_metadata(pdf_data) ==
    LET idx(name) == CHOOSE i \in 1..Len(pdf_data) : pdf_data[i].pdf = name
    IN  [name \in {pdf_data[i].pdf : i \in 1..Len(pdf_data)} |->
            pdf_meta(pdf_data[idx(name)].pages)]

\* prepare_batch_file with the request lines of the first document only
prepare_batch_file_first_document(pdf_data) ==
    [batch_file |-> batch_lines(SubSeq(pdf_data, 1, 1)),
     batch_metadata |-> batch_metadata(pdf_data)]

\* prepare_batch_file: the staging file content and the metadata skeleton
prepare_batch_file(pdf_data) ==
    [batch_file |-> batch_lines(pdf_data), batch_metadata |-> batch_metadata(pdf_data)]

\* --------------------------------------------------- Batch Job Submitter
\* points of submit_batch_job at which an exception can be raised
SubmitFaults == {"none", "upload", "create", "open_info", "dump_info"}

\* new_batch_info with the metadata left out
new_batch_info_without_metadata(batch_id, input_file_id, metadata) ==
    [kind |-> "record", batch_id |-> batch_id, input_file_id |-> input_file_id,
     status |-> "submitted", metadata |-> EmptyMap]

\* batch_info = {"batch_id": ..., "input_file_id": ..., "status": "submitted",
\*               "metadata": metadata}
new_batch_info(batch_id, input_file_id, metadata) ==
    [kind |-> "record", batch_id |-> batch_id, input_file_id |-> input_file_id,
     status |-> "submitted", metadata |-> metadata]

\* the job the service holds after client.batches.create
new_job(input_file_id) ==
    [input_file_id |-> input_file_id, status |-> "validating",
     output_file_id |-> None, output |-> << >>]

\* submit_batch_job(client, batch_file_path, state_dir, metadata); w is the
\* world (files on disk and the service), fault the raising point
submit_batch_job(w, metadata, fault) ==
    IF fault = "upload"
    THEN [w |-> w, ret |-> None, calls |-> << "files.create" >>]
    ELSE
    LET file_id == Len(w.svc_files) + 1
        w1 == [w EXCEPT !.svc_files = Append(@, w.batch_file.lines)]
    IN  IF fault = "create"
        THEN [w |-> w1, ret |-> None, calls |-> << "files.create", "batches.create" >>]
        ELSE
        LET batch_id == Len(w.svc_jobs) + 1
            w2 == [w1 EXCEPT !.svc_jobs = Append(@, new_job(file_id))]
            calls == << "files.create", "batches.create" >>
        IN  IF fault = "open_info"
            THEN [w |-> w2, ret |-> None, calls |-> calls]
            ELSE IF fault = "dump_info"
            THEN [w |-> [w2 EXCEPT !.batch_info = Partial], ret |-> None, calls |-> calls]
            ELSE [w |-> [w2 EXCEPT !.batch_info = new_batch_info(batch_id, file_id, metadata)],
                  ret |-> batch_id, calls |-> calls]

\* --------------------------------------------- Batch Job Status Reconciler
\* points of check_batch_status at which an exception can be raised
CheckFaults == {"none", "retrieve", "dump_status", "download", "parse"}

\* what a call of check_batch_status leaves: the world, the value returned,
\* the point that raised ("" when none did) and the service calls made
check_result(w, ret, raised, calls) ==
    [w |-> w, ret |-> ret, raised |-> raised, calls |-> calls]

\* pdf_results[pdf][page] = res.get("response", {}); pdf_results is a dict in
\* insertion order, kept as a sequence of [pdf, data]
add_result(pdf_results, pdf, page, response) ==
    IF \E i \in 1..Len(pdf_results) : pdf_results[i].pdf = pdf
    THEN LET i == CHOOSE j \in 1..Len(pdf_results) : pdf_results[j].pdf = pdf
         IN  [pdf_results EXCEPT ![i].data = Put(@, page, response)]
    ELSE Append(pdf_results, [pdf |-> pdf, data |-> Put(EmptyMap, page, response)])

\* for res in batch_results: split the custom_id and group by PDF
RECURSIVE group_results(_, _)
group_results(batch_results, pdf_results) ==
    IF Len(batch_results) = 0 THEN pdf_results
    ELSE LET res == Head(batch_results)
             d == decode_custom_id(res.custom_id)
         IN  group_results(Tail(batch_results),
                           add_result(pdf_results, d.pdf, d.page, res.response))

\* write_output that keeps a file that is already there
write_output_if_absent(outs, entry) ==
    IF output_file(entry.pdf) \in DOMAIN outs THEN outs
    ELSE Put(outs, output_file(entry.pdf), entry.data)

\* with open(output_file, "w") as f: json.dump(data, f)
write_output(outs, entry) == Put(outs, output_file(entry.pdf), entry.data)

\* for pdf, data in pdf_results.items(): write the output file of pdf
RECURSIVE write_outputs(_, _)
write_outputs(outs, pdf_results) ==
    IF Len(pdf_results) = 0 THEN outs
    ELSE write_outputs(write_output(outs, Head(pdf_results)), Tail(pdf_results))

\* remove_batch_info without the removal
remove_batch_info_skipped(batch_info) == batch_info

\* os.remove(batch_info_path) after the outputs are written
remove_batch_info(batch_info) == NoFile

\* download_and_save that writes the results line by line, up to the first
\* line whose identifier does not split
download_and_save_line_by_line(w, batch, fault) ==
    LET calls == << "batches.retrieve", "files.content" >>
        bad == {i \in 1..Len(batch.output) : ~SplitOk(batch.output[i].custom_id)}
    IN  IF fault = "download"
        THEN check_result(w, "error", "download", calls)
        ELSE IF fault = "parse"
        THEN check_result(w, "error", "parse", calls)
        ELSE IF bad # {}
        THEN LET first == CHOOSE i \in bad : \A j \in bad : i <= j
             IN  check_result([w EXCEPT !.outputs = write_outputs(@,
                                    group_results(SubSeq(batch.output, 1, first - 1), << >>))],
                              "error", "split", calls)
        ELSE check_result([w EXCEPT !.outputs = write_outputs(@, group_results(batch.output, << >>)),
                                    !.batch_info = remove_batch_info(@)],
                          "completed_and_processed", "", calls)

\* the branch taken when status == "completed" and batch.output_file_id:
\* download the file, json.loads every line (fault "parse": a line is not
\* JSON), split every custom_id, then write the output files
download_and_save(w, batch, fault) ==
    LET calls == << "batches.retrieve", "files.content" >>
    IN  IF fault = "download"
        THEN check_result(w, "error", "download", calls)
        ELSE IF fault = "parse"
        THEN check_result(w, "error", "parse", calls)
        ELSE IF \E i \in 1..Len(batch.output) : ~SplitOk(batch.output[i].custom_id)
        THEN check_result(w, "error", "split", calls)
        ELSE check_result([w EXCEPT !.outputs = write_outputs(@, group_results(batch.output, << >>)),
                                    !.batch_info = remove_batch_info(@)],
                          "completed_and_processed", "", calls)

\* not_found without the test of the path: opening the file raises
not_found_unchecked(w) == check_result(w, "error", "load", << >>)

\* if not os.path.exists(batch_info_path): return "not_found"
not_found(w) == check_result(w, "not_found", "", << >>)

\* no_batch_id with the status "error" saved in the record
no_batch_id_marked(w) ==
    check_result([w EXCEPT !.batch_info.status = "error"], "error", "", << >>)

\* if not batch_id: return "error"
no_batch_id(w) == check_result(w, "error", "", << >>)

\* refresh_status without the write
refresh_status_unsaved(batch_info, status) == batch_info

\* batch_info["status"] = status; json.dump(batch_info, f)
refresh_status(batch_info, status) == [batch_info EXCEPT !.status = status]

\* results_ready without the test of the output file
results_ready_without_handle(status, batch) == status = "completed"

\* if status == "completed" and batch.output_file_id:
results_ready(status, batch) == status = "completed" /\ batch.output_file_id # None

\* the raising points that a call of check_batch_status on w reaches
CheckFaultsAt(w) ==
    IF ~IsRecord(w.batch_info) THEN {"none"}
    ELSE IF w.batch_info.batch_id = None THEN {"none"}
    ELSE IF results_ready(w.svc_jobs[w.batch_info.batch_id].status,
                          w.svc_jobs[w.batch_info.batch_id])
    THEN CheckFaults
    ELSE CheckFaults \ {"download", "parse"}

\* check_batch_status(client, state_dir, output_dir)
check_batch_status(w, fault) ==
    IF w.batch_info = NoFile
    THEN not_found(w)
    ELSE IF ~IsRecord(w.batch_info)
    THEN check_result(w, "error", "load", << >>)
    ELSE IF w.batch_info.batch_id = None
    THEN no_batch_id(w)
    ELSE IF fault = "retrieve"
    THEN check_result(w, "error", "retrieve", << "batches.retrieve" >>)
    ELSE
    LET batch == w.svc_jobs[w.batch_info.batch_id]
        status == batch.status
    IN  IF fault = "dump_status"
        THEN check_result([w EXCEPT !.batch_info = Partial], "error", "dump_status",
                          << "batches.retrieve" >>)
        ELSE
        LET w1 == [w EXCEPT !.batch_info = refresh_status(@, status)]
        IN  IF results_ready(status, batch)
            THEN download_and_save(w1, batch, fault)
            ELSE check_result(w1, status, "", << "batches.retrieve" >>)

\* ----------------------------------------------------------- Pipeline Driver
\* driver_branch that waits on every status it does not know as processed
driver_branch_waits(status) ==
    IF status \in {"completed", "completed_and_processed"} THEN "processed"
    ELSE "processing"

\* the three branches of the Driver on the status of an existing job
driver_branch(status) ==
    IF status \in {"completed", "completed_and_processed"} THEN "processed"
    ELSE IF status \in {"submitted", "in_progress"} THEN "processing"
    ELSE "failed"

\* remaining_pdfs without the test of the output file
remaining_pdfs_unfiltered(pdf_data, outputs) == pdf_data

\* for pdf in list(analyzed_data.keys()): del analyzed_data[pdf] when its
\* output file exists
remaining_pdfs(pdf_data, outputs) ==
    SelectSeq(pdf_data, LAMBDA e : output_file(e.pdf) \notin DOMAIN outputs)

\* what the Driver knows of its call of check_batch_status
no_check == [called |-> FALSE, ret |-> "", raised |-> "", calls |-> << >>]
check_made(c) == [called |-> TRUE, ret |-> c.ret, raised |-> c.raised, calls |-> c.calls]

\* the result of a Driver run
driver_result(w, ret, check, submit_called, submit_ret, calls) ==
    [w |-> w, ret |-> ret, check_called |-> check.called, check_ret |-> check.ret,
     check_raised |-> check.raised, submit_called |-> submit_called,
     submit_ret |-> submit_ret, calls |-> calls]

\* remove_batch_file without the removal
remove_batch_file_kept(f) == f

\* if os.path.exists(batch_file): os.remove(batch_file)
remove_batch_file(f) == IF f # NoFile THEN NoFile ELSE f

\* process_all_pdfs from "Loading analyzed data" on: load (lfault: the file
\* cannot be read and the exception leaves process_all_pdfs), filter,
\* compile, submit, remove the staging file
submit_remaining(w, pdf_data, check, lfault, sfault) ==
    IF lfault
    THEN driver_result(w, "raised", check, FALSE, None, check.calls)
    ELSE
    LET remaining == remaining_pdfs(pdf_data, w.outputs)
    IN  IF Len(remaining) = 0
        THEN driver_result(w, "no_new_pdfs", check, FALSE, None, check.calls)
        ELSE
        LET prep == prepare_batch_file(remaining)
            w1 == [w EXCEPT !.batch_file = [kind |-> "file", lines |-> prep.batch_file]]
            s == submit_batch_job(w1, prep.batch_metadata, sfault)
            w2 == [s.w EXCEPT !.batch_file = remove_batch_file(@)]
        IN  driver_result(w2, IF s.ret # None THEN "submitted" ELSE "submit_failed",
                          check, TRUE, s.ret, check.calls \o s.calls)

\* remove_stale_record that marks the record instead of removing it
remove_stale_record_marked(batch_info) ==
    IF IsRecord(batch_info) THEN [batch_info EXCEPT !.status = "abandoned"] ELSE batch_info

\* os.remove(batch_info_path) in the branch "Previous batch job failed"
remove_stale_record(batch_info) == NoFile

\* process_all_pdfs(analyzed_data_file, api_key, output_dir, model)
process_all_pdfs(w, pdf_data, cfault, lfault, sfault) ==
    IF w.batch_info # NoFile
    THEN LET c == check_batch_status(w, cfault)
             branch == driver_branch(c.ret)
         IN  IF branch = "processed"
             THEN driver_result(c.w, "already_processed", check_made(c), FALSE, None, c.calls)
             ELSE IF branch = "processing"
             THEN driver_result(c.w, "still_processing", check_made(c), FALSE, None, c.calls)
             ELSE submit_remaining([c.w EXCEPT !.batch_info = remove_stale_record(@)], pdf_data,
                                   check_made(c), lfault, sfault)
    ELSE submit_remaining(w, pdf_data, no_check, lfault, sfault)

\* main(): process_all_pdfs inside try/except, "return 1" when it raised and
\* "return 0" otherwise
main_return(ret) == IF ret = "raised" THEN 1 ELSE 0

\* the module ends with a bare call "main()": the value main returns is
\* dropped and the interpreter ends with status 0
exit_status(main_ret) == 0

\* ------------------------------------------------------------------ state
VARIABLES
    batch_info,     \* state/batch_info.json
    outputs,        \* output_dir: file name -> page -> response
    batch_file,     \* batch_requests.jsonl
    analyzed_data,  \* all_documents_analyzed.json: [pdf, pages] in dict order
    svc_files,      \* files uploaded to the batch service
    svc_jobs,       \* batch jobs of the service, indexed by batch id
    last,           \* the last operation and what it returned
    crash,          \* a kill of the process inside check_batch_status
    codec,          \* a correlation identifier encoded and decoded
    compiled,       \* a mapping given to prepare_batch_file and what it returned
    ocr,            \* the image and table analysis: folders, position, requests
    runner          \* run_pdf_preprocessor.main: the step reached, the steps run

\* the state of the metadata stage: the files, the service and the last run
pipeline == << batch_info, outputs, batch_file, analyzed_data, svc_files, svc_jobs,
               last, crash >>

\* the state of the components that are modelled on their own
side == << codec, compiled, ocr, runner >>

vars == << pipeline, side >>

World ==
    [batch_info |-> batch_info, outputs |-> outputs, batch_file |-> batch_file,
     svc_files |-> svc_files, svc_jobs |-> svc_jobs]

SetWorld(w) ==
    /\ batch_info' = w.batch_info
    /\ outputs' = w.outputs
    /\ batch_file' = w.batch_file
    /\ svc_files' = w.svc_files
    /\ svc_jobs' = w.svc_jobs

\* ----------------------------------------------------------------- inputs
PdfA == << "A", ".", "p", "d", "f" >>
PdfB == << "B", ".", "p", "d", "f" >>
JsonA == << "A", ".", "j", "s", "o", "n" >>
Pdfs == {PdfA, PdfB, JsonA}
Page1 == << "1" >>
Page2 == << "2" >>
\* the pages of each document
PagesOf(pdf) == IF pdf = PdfA THEN << Page1, Page2 >> ELSE << Page1 >>

\* the documents in the order of the analyzed-data file
PdfOrder == << PdfA, PdfB, JsonA >>

\* analyzed-data files: up to MaxDocs of the documents
AnalyzedInputs ==
    {SelectSeq([i \in 1..Len(PdfOrder) |-> [pdf |-> PdfOrder[i], pages |-> PagesOf(PdfOrder[i])]],
               LAMBDA e : e.pdf \in chosen) :
        chosen \in {c \in SUBSET Pdfs : Cardinality(c) <= MaxDocs}}

NoOp ==
    [op |-> "none", ret |-> "", check_called |-> FALSE, check_ret |-> "",
     check_raised |-> "", submit_called |-> FALSE, submit_ret |-> None,
     calls |-> << >>, main_ret |-> 0, exit_status |-> 0]

\* no kill of the process is pending
NoCrash == [pending |-> FALSE, recovered |-> FALSE, crash_free |-> EmptyMap]

\* a kill stays pending as long as the Job Record it left is on disk as it
\* was; it is recovered by the call that reconciles the job
crash_after(w, check_ret) ==
    IF crash.pending /\ w.batch_info = batch_info THEN crash
    ELSE IF crash.pending /\ w.batch_info = NoFile /\ check_ret = "completed_and_processed"
    THEN [NoCrash EXCEPT !.recovered = TRUE]
    ELSE NoCrash

NoCompiled == [stage |-> "none", pdf_data |-> << >>, batch_file |-> << >>,
               batch_metadata |-> EmptyMap]

\* the image and table analysis has nothing to work on
NoOcr ==
    [pc |-> "idle", run |-> 0, ocr_folder |-> EmptyMap, output_folder |-> EmptyMap,
     ocr_files_to_process |-> << >>, file_name |-> << >>, ocr_data |-> << >>,
     pending |-> << >>, tables_to_analyze |-> << >>, wave |-> << >>, waves |-> 0,
     awaiting |-> FALSE,
     all_results |-> EmptyMap, requests |-> 0, failures |-> 0, resolved |-> {},
     failed |-> {},
     returned |-> << >>, issued |-> {}]

\* the pipeline runner is not started
NoRunner == [start_step |-> 1, step |-> 0, ran |-> << >>, returned |-> FALSE,
             raised |-> FALSE, ret |-> 0]

NoCodec == [stage |-> "none", doc |-> << >>, page |-> << >>, custom_id |-> << >>,
            ok |-> FALSE, pdf |-> << >>, decoded_page |-> << >>]

Init ==
    /\ batch_info = NoFile
    /\ outputs = EmptyMap
    /\ batch_file = NoFile
    /\ analyzed_data \in AnalyzedInputs
    /\ svc_files = << >>
    /\ svc_jobs = << >>
    /\ last = NoOp
    /\ crash = NoCrash
    /\ codec = NoCodec
    /\ compiled = NoCompiled
    /\ ocr = NoOcr
    /\ runner = NoRunner

\* ---------------------------------------------------------------- actions
\* main() without --check_only: one Driver run; the raising points of a
\* stage are enumerated only in the runs that reach the stage; once MaxJobs
\* files are uploaded, a run that reaches the upload is explored only with
\* the upload raising (any other outcome uploads one file more)
ProcessAllPdfs ==
    \E cfault \in CheckFaultsAt(World) :
      \E first \in {IF Len(svc_files) < MaxJobs THEN "none" ELSE "upload"} :
      \E r0 \in {process_all_pdfs(World, analyzed_data, cfault, FALSE, first)} :
        \E lfault \in IF r0.ret \in {"already_processed", "still_processing"}
                       THEN {FALSE} ELSE BOOLEAN :
          \E sfault \in IF ~r0.submit_called \/ lfault THEN {first}
                         ELSE IF first = "none" THEN SubmitFaults ELSE {first} :
            \E r \in {IF ~lfault /\ sfault = first THEN r0
                      ELSE process_all_pdfs(World, analyzed_data, cfault, lfault, sfault)} :
              /\ Len(r.w.svc_files) <= MaxJobs
              /\ SetWorld(r.w)
              /\ last' = [op |-> "process_all_pdfs", ret |-> r.ret,
                          check_called |-> r.check_called, check_ret |-> r.check_ret,
                          check_raised |-> r.check_raised,
                          submit_called |-> r.submit_called, submit_ret |-> r.submit_ret,
                          calls |-> r.calls, main_ret |-> main_return(r.ret),
                          exit_status |-> exit_status(main_return(r.ret))]
              /\ crash' = crash_after(r.w, r.check_ret)
              /\ UNCHANGED << analyzed_data, side >>

\* main() with --check_only: one Reconciler call, the status printed
CheckOnly ==
    \E cfault \in CheckFaultsAt(World) :
        \E r \in {check_batch_status(World, cfault)} :
            /\ SetWorld(r.w)
            /\ last' = [op |-> "check_batch_status", ret |-> r.ret,
                        check_called |-> TRUE, check_ret |-> r.ret,
                        check_raised |-> r.raised,
                        submit_called |-> FALSE, submit_ret |-> None,
                        calls |-> r.calls, main_ret |-> 0,
                        exit_status |-> exit_status(0)]
            /\ crash' = crash_after(r.w, r.ret)
            /\ UNCHANGED << analyzed_data, side >>

\* the jobs of the service that the program can still observe: the one the
\* Job Record names (the status of any other job is never retrieved again)
Observed ==
    IF IsRecord(batch_info) /\ batch_info.batch_id # None THEN {batch_info.batch_id} ELSE {}

\* the batch service moves job b from one status to the next
SetStatus(b, from, to) ==
    /\ svc_jobs[b].status = from
    /\ svc_jobs' = [svc_jobs EXCEPT ![b].status = to]
    /\ last' = [NoOp EXCEPT !.op = "service"]
    /\ UNCHANGED << batch_info, outputs, batch_file, analyzed_data, svc_files, crash, side >>

JobValidated == \E b \in Observed : SetStatus(b, "validating", "in_progress")
JobFailed == \E b \in Observed : SetStatus(b, "validating", "failed")
JobFinalizing == \E b \in Observed : SetStatus(b, "in_progress", "finalizing")
JobExpired == \E b \in Observed : SetStatus(b, "in_progress", "expired")

\* the result line of one request: {"custom_id": ..., "response": ...}
result_line(b, request) ==
    [custom_id |-> request.custom_id,
     response |-> [batch |-> b, request |-> request.custom_id]]

Reverse(s) == [i \in 1..Len(s) |-> s[Len(s) + 1 - i]]

\* the requests of a job of n requests that succeed: all, all but the last,
\* or none
DoneSets(n) == {1..n, 1..(n - 1), {}}

\* the service completes job b: the output file holds one line for each
\* request that succeeded, in the order of the requests or the opposite one;
\* there is no output file when no request succeeded
JobCompleted ==
    \E b \in Observed :
        /\ svc_jobs[b].status = "finalizing"
        /\ LET requests == svc_files[svc_jobs[b].input_file_id]
           IN  \E done \in DoneSets(Len(requests)), reversed \in BOOLEAN :
                LET picked == SelectSeq([i \in 1..Len(requests) |->
                                            [i |-> i, line |-> result_line(b, requests[i])]],
                                        LAMBDA e : e.i \in done)
                    lines == [i \in 1..Len(picked) |-> picked[i].line]
                IN  svc_jobs' = [svc_jobs EXCEPT
                        ![b].status = "completed",
                        ![b].output_file_id = IF done = {} THEN None ELSE b,
                        ![b].output = IF reversed THEN Reverse(lines) ELSE lines]
        /\ last' = [NoOp EXCEPT !.op = "service"]
        /\ UNCHANGED << batch_info, outputs, batch_file, analyzed_data, svc_files, crash, side >>

Next ==
    \/ ProcessAllPdfs
    \/ CheckOnly
    \/ JobValidated
    \/ JobFailed
    \/ JobFinalizing
    \/ JobExpired
    \/ JobCompleted

Spec == Init /\ [][Next]_vars

\* ------------------------------------ the Batch Request Compiler on its own
\* document and page identifiers, some of them holding "__page-"
CompilerDocs == {<< "a" >>, << "a" >> \o Separator \o PagePrefix \o << "b" >>, << "c" >>}
CompilerPages == {<< "1" >>, << "2" >>, << "b" >> \o Separator \o PagePrefix \o << "1" >>}

\* the sequences of at most n distinct elements of S: the keys of a dict
Keys(S, n) ==
    {k \in UNION {[1..m -> S] : m \in 0..n} :
        \A i, j \in 1..Len(k) : i # j => k[i] # k[j]}

\* the mapping document -> page -> elements with the documents docs and the
\* pages pages[i] of document i, in dict order; the elements of a page are
\* not modelled
pdf_data_of(docs, pages) == [i \in 1..Len(docs) |-> [pdf |-> docs[i], pages |-> pages[i]]]

InitCompiler ==
    /\ batch_info = NoFile
    /\ outputs = EmptyMap
    /\ batch_file = NoFile
    /\ analyzed_data = << >>
    /\ svc_files = << >>
    /\ svc_jobs = << >>
    /\ last = NoOp
    /\ crash = NoCrash
    /\ codec = NoCodec
    /\ \E docs \in Keys(CompilerDocs, MaxDocs) :
        \E pages \in [1..Len(docs) -> Keys(CompilerPages, MaxPages)] :
            compiled = [NoCompiled EXCEPT !.stage = "input",
                                          !.pdf_data = pdf_data_of(docs, pages)]
    /\ ocr = NoOcr
    /\ runner = NoRunner

\* prepare_batch_file(pdf_data, system_prompt, model)
Compile ==
    /\ compiled.stage = "input"
    /\ \E r \in {prepare_batch_file(compiled.pdf_data)} :
        compiled' = [compiled EXCEPT !.stage = "compiled",
                                     !.batch_file = r.batch_file,
                                     !.batch_metadata = r.batch_metadata]
    /\ UNCHANGED << pipeline, codec, ocr, runner >>

NextCompiler == Compile

SpecCompiler == InitCompiler /\ [][NextCompiler]_vars

\* ------------------------------ a state directory prepared by another hand
\* a Job Record that holds no batch_id
record_without_batch_id ==
    [kind |-> "record", batch_id |-> None, input_file_id |-> None,
     status |-> "submitted", metadata |-> EmptyMap]

\* the program is started on a state directory that holds such a record
InitNoBatchId ==
    /\ batch_info = record_without_batch_id
    /\ outputs = EmptyMap
    /\ batch_file = NoFile
    /\ analyzed_data \in AnalyzedInputs
    /\ svc_files = << >>
    /\ svc_jobs = << >>
    /\ last = NoOp
    /\ crash = NoCrash
    /\ codec = NoCodec
    /\ compiled = NoCompiled
    /\ ocr = NoOcr
    /\ runner = NoRunner

SpecNoBatchId == InitNoBatchId /\ [][Next]_vars

\* --------------------------- a document whose name holds the separator
PdfAB == << "A", "_", "_", "B", ".", "p", "d", "f" >>

\* analyzed-data files with that document, alone and after another one
UnsplittableInputs ==
    {<< [pdf |-> PdfAB, pages |-> << Page1 >>] >>,
     << [pdf |-> PdfB, pages |-> << Page1 >>], [pdf |-> PdfAB, pages |-> << Page1 >>] >>}

InitUnsplittable ==
    /\ batch_info = NoFile
    /\ outputs = EmptyMap
    /\ batch_file = NoFile
    /\ analyzed_data \in UnsplittableInputs
    /\ svc_files = << >>
    /\ svc_jobs = << >>
    /\ last = NoOp
    /\ crash = NoCrash
    /\ codec = NoCodec
    /\ compiled = NoCompiled
    /\ ocr = NoOcr
    /\ runner = NoRunner

SpecUnsplittable == InitUnsplittable /\ [][Next]_vars

\* ------------------------------------------- documents that have no page
\* analyzed-data files in which a document maps no page: {"A.pdf": {}}
ZeroPageInputs ==
    {<< [pdf |-> PdfA, pages |-> << >>] >>,
     << [pdf |-> PdfA, pages |-> << >>], [pdf |-> PdfB, pages |-> << >>] >>,
     << [pdf |-> PdfA, pages |-> << >>], [pdf |-> PdfB, pages |-> << Page1 >>] >>}

InitZeroPages ==
    /\ batch_info = NoFile
    /\ outputs = EmptyMap
    /\ batch_file = NoFile
    /\ analyzed_data \in ZeroPageInputs
    /\ svc_files = << >>
    /\ svc_jobs = << >>
    /\ last = NoOp
    /\ crash = NoCrash
    /\ codec = NoCodec
    /\ compiled = NoCompiled
    /\ ocr = NoOcr
    /\ runner = NoRunner

SpecZeroPages == InitZeroPages /\ [][Next]_vars

\* ------------------------------------- the process killed while it writes
\* an output file opened for writing and not yet written
TruncatedOutput == Put(EmptyMap, << "truncated" >>, [batch |-> None, request |-> << >>])

\* the outputs on disk when the process is killed after it wrote the first k
\* files of pdf_results, the next one opened and left empty when truncated
outputs_at_kill(outs, pdf_results, k, truncated) ==
    LET written == write_outputs(outs, SubSeq(pdf_results, 1, k))
    IN  IF truncated
        THEN Put(written, output_file(pdf_results[k + 1].pdf), TruncatedOutput)
        ELSE written

\* check_batch_status (called from main or from the Driver) is killed between
\* the first write of an output file and os.remove(batch_info_path)
CheckKilled ==
    /\ IsRecord(batch_info)
    /\ batch_info.batch_id # None
    /\ \E batch \in {svc_jobs[batch_info.batch_id]} :
        /\ batch.status = "completed"
        /\ batch.output_file_id # None
        /\ \A i \in 1..Len(batch.output) : SplitOk(batch.output[i].custom_id)
        /\ \E pdf_results \in {group_results(batch.output, << >>)} :
            \E k \in 1..Len(pdf_results) :
              \E truncated \in IF k < Len(pdf_results) THEN BOOLEAN ELSE {FALSE} :
                /\ outputs' = outputs_at_kill(outputs, pdf_results, k, truncated)
                /\ crash' = [pending |-> TRUE, recovered |-> FALSE,
                             crash_free |-> write_outputs(outputs, pdf_results)]
    /\ batch_info' = refresh_status(batch_info, "completed")
    /\ last' = [NoOp EXCEPT !.op = "killed"]
    /\ UNCHANGED << batch_file, analyzed_data, svc_files, svc_jobs, side >>

NextCrash == Next \/ CheckKilled

\* ------------------------------------ a job cancelled from outside the program
\* another client of the service (the dashboard, an operator) cancels the job
JobCancelled == \E b \in Observed : SetStatus(b, "in_progress", "cancelled")

NextCancelled == Next \/ JobCancelled

SpecCancelled == Init /\ [][NextCancelled]_vars

SpecCrash == Init /\ [][NextCrash]_vars

\* ---------------------------------------- the correlation codec on its own
CodecAlphabet == {"_", "-", "e", "1"}

\* the strings over the alphabet of length at most n
Strings(n) == UNION {[1..k -> CodecAlphabet] : k \in 0..n}

CodecDocs == Strings(MaxIdLen) \cup {PagePrefix \o s : s \in Strings(1)}
CodecPages ==
    Strings(MaxIdLen) \cup {PagePrefix \o s : s \in Strings(1)}
                      \cup {s \o PagePrefix : s \in Strings(1)}

\* the (document, page) pairs given to the codec
CodecInputs ==
    {[stage |-> "input", doc |-> doc, page |-> page, custom_id |-> << >>,
      ok |-> FALSE, pdf |-> << >>, decoded_page |-> << >>] :
        doc \in CodecDocs, page \in CodecPages}

\* prepare_batch_file builds the identifier of (doc, page)
EncodeId ==
    /\ codec.stage = "input"
    /\ codec' = [codec EXCEPT !.stage = "encoded",
                              !.custom_id = custom_id(codec.doc, codec.page)]
    /\ UNCHANGED << pipeline, compiled, ocr, runner >>

\* check_batch_status splits the identifier; a split into other than two
\* parts raises
DecodeId ==
    /\ codec.stage = "encoded"
    /\ \E ok \in {SplitOk(codec.custom_id)} :
        \E d \in {IF ok THEN decode_custom_id(codec.custom_id)
                        ELSE [pdf |-> << >>, page |-> << >>]} :
            codec' = [codec EXCEPT !.stage = "decoded", !.ok = ok,
                                   !.pdf = d.pdf, !.decoded_page = d.page]
    /\ UNCHANGED << pipeline, compiled, ocr, runner >>

InitCodec ==
    /\ batch_info = NoFile
    /\ outputs = EmptyMap
    /\ batch_file = NoFile
    /\ analyzed_data = << >>
    /\ svc_files = << >>
    /\ svc_jobs = << >>
    /\ last = NoOp
    /\ crash = NoCrash
    /\ codec \in CodecInputs
    /\ compiled = NoCompiled
    /\ ocr = NoOcr
    /\ runner = NoRunner

NextCodec == EncodeId \/ DecodeId

SpecCodec == InitCodec /\ [][NextCodec]_vars

\* ------------------------------------ image and table analysis (step 3)
\* MAX_CONCURRENT_REQUESTS
MAX_CONCURRENT_REQUESTS == 5

\* str.replace(old, new): every non-overlapping occurrence replaced
RECURSIVE Replace(_, _, _)
Replace(s, old, new) ==
    LET i == Find(s, old, 1)
    IN  IF i = 0 THEN s
        ELSE SubSeq(s, 1, i - 1) \o new \o Replace(Tail_from(s, i + Len(old)), old, new)

\* str.endswith(suffix)
EndsWith(s, suffix) ==
    Len(suffix) <= Len(s) /\ StartsAt(s, suffix, Len(s) - Len(suffix) + 1)

\* os.path.splitext(name)[0]: the name without its last extension
splitext_root(name) ==
    LET i == RFind(name, ".", Len(name))
    IN  IF i > 1 THEN SubSeq(name, 1, i - 1) ELSE name

OcrSuffix == << "_", "o", "c", "r", ".", "j", "s", "o", "n" >>
AnalyzedSuffix == << "_", "a", "n", "a", "l", "y", "z", "e", "d", ".", "j", "s", "o", "n" >>
JsonSuffix == << ".", "j", "s", "o", "n" >>
PdfSuffix == << ".", "p", "d", "f" >>
AllDocumentsOcr == << "a", "l", "l", "_", "d", "o", "c", "u", "m", "e", "n", "t", "s" >> \o OcrSuffix
AllDocumentsAnalyzed == << "a", "l", "l", "_", "d", "o", "c", "u", "m", "e", "n", "t", "s" >> \o AnalyzedSuffix

\* the OCR files that pdf_extract writes: <stem>_ocr.json
OcrFileA == << "A" >> \o OcrSuffix
OcrFileB == << "B" >> \o OcrSuffix

\* output_file = f"{os.path.splitext(file_name)[0]}_analyzed.json"
analyzed_file(file_name) == splitext_root(file_name) \o AnalyzedSuffix

\* pdf_name = file_name.replace("_ocr.json", ".pdf")
pdf_name_of(file_name) == Replace(file_name, OcrSuffix, PdfSuffix)

\* glob order of the files of a folder
FileOrder ==
    << OcrFileA, OcrFileB, AllDocumentsOcr,
       analyzed_file(OcrFileA), analyzed_file(OcrFileB), AllDocumentsAnalyzed >>

\* glob.glob(os.path.join(folder, "*" + suffix)) as a sequence of names
glob(folder, suffix) ==
    SelectSeq(FileOrder, LAMBDA f : f \in DOMAIN folder /\ EndsWith(f, suffix))

\* the names of a sequence
Names(fs) == {fs[i] : i \in 1..Len(fs)}

\* ocr_files: the JSON files of the OCR folder but the common file
ocr_files(ocr_folder) ==
    SelectSeq(glob(ocr_folder, JsonSuffix), LAMBDA f : f # AllDocumentsOcr)

\* processed_files: the name of each *_analyzed.json of the output folder
\* with "_analyzed.json" replaced by "_ocr.json"
processed_files(output_folder) ==
    {Replace(f, AnalyzedSuffix, OcrSuffix) : f \in Names(glob(output_folder, AnalyzedSuffix))}

\* ocr_files_to_process: the OCR files whose name is not in processed_files
ocr_files_to_process(ocr_folder, output_folder) ==
    SelectSeq(ocr_files(ocr_folder), LAMBDA f : f \notin processed_files(output_folder))

\* the loop that loads the *_analyzed.json files into all_results
RECURSIVE load_analyzed(_, _, _)
load_analyzed(files, output_folder, all_results) ==
    IF Len(files) = 0 THEN all_results
    ELSE LET base_name == Replace(Head(files), AnalyzedSuffix, OcrSuffix)
             pdf_name == Replace(base_name, OcrSuffix, PdfSuffix)
         IN  load_analyzed(Tail(files), output_folder,
                           Put(all_results, pdf_name, output_folder[Head(files)]))

\* no analysis: the key is absent from the element, the result is None
NoAnalysis == << >>

\* an element of a page
Element(category, payload) ==
    [category |-> category, payload |-> payload,
     vision_analysis |-> NoAnalysis, table_analysis |-> NoAnalysis]

\* the OCR data of a file: page 1 holds n images, page 2 a table, a table
\* whose HTML is blank and a text when tables is set
OcrData(n, tables) ==
    << [page |-> << "1" >>, elements |-> [i \in 1..n |-> Element("Image", "data")]] >>
    \o (IF tables
        THEN << [page |-> << "2" >>,
                 elements |-> << Element("Table", "data"), Element("Table", "blank"),
                                 Element("Text", "") >>] >>
        ELSE << >>)

\* the test of an element in the scan of a page
is_image_to_analyze(e) ==
    e.category = "Image" /\ e.payload = "data" /\ e.vision_analysis = NoAnalysis
is_table_to_analyze(e) ==
    ~is_image_to_analyze(e) /\ e.category = "Table" /\ e.payload # ""
        /\ e.table_analysis = NoAnalysis

\* images_to_analyze (key "images") and tables_to_analyze: the (page, index)
\* of the elements that pass the test, in the order of the scan
RECURSIVE to_analyze(_, _)
to_analyze(ocr_data, key) ==
    IF Len(ocr_data) = 0 THEN << >>
    ELSE LET pg == Head(ocr_data)
             here == SelectSeq([i \in 1..Len(pg.elements) |-> [page |-> pg.page, idx |-> i]],
                               LAMBDA x : IF key = "images"
                                          THEN is_image_to_analyze(pg.elements[x.idx])
                                          ELSE is_table_to_analyze(pg.elements[x.idx]))
         IN  here \o to_analyze(Tail(ocr_data), key)

\* ocr_data[page][idx]
element_at(ocr_data, page, idx) ==
    LET k == CHOOSE j \in 1..Len(ocr_data) : ocr_data[j].page = page
    IN  ocr_data[k].elements[idx]

\* the text the service returns for a request: it describes the payload of
\* the element it was sent
analysis_of(file_name, page, idx) == << file_name, page, idx >>

\* next_batch that takes all that is left
next_batch_unbounded(pending) == pending

\* batch = to_analyze[i:i+MAX_CONCURRENT_REQUESTS]
next_batch(pending) ==
    SubSeq(pending, 1, IF Len(pending) < MAX_CONCURRENT_REQUESTS
                       THEN Len(pending) ELSE MAX_CONCURRENT_REQUESTS)

\* analyze_image_async / analyze_table_async up to the await: a blank payload
\* returns None at once, any other sends the request
start_request(ocr_data, x) ==
    [page |-> x.page, idx |-> x.idx,
     state |-> IF element_at(ocr_data, x.page, x.idx).payload = "blank"
               THEN "none" ELSE "in_flight",
     analysis |-> NoAnalysis]

\* gather_done that returns with the first result
gather_done_first(wave) == \E i \in 1..Len(wave) : wave[i].state # "in_flight"

\* await asyncio.gather(...) returns when every coroutine has returned
gather_done(wave) == \A i \in 1..Len(wave) : wave[i].state # "in_flight"

\* for page, idx, analysis in results: if analysis: ocr_data[page][idx][key] = analysis
RECURSIVE apply_results(_, _, _)
apply_results(ocr_data, results, key) ==
    IF Len(results) = 0 THEN ocr_data
    ELSE LET r == Head(results)
             k == CHOOSE j \in 1..Len(ocr_data) : ocr_data[j].page = r.page
             stored == IF r.analysis = NoAnalysis THEN ocr_data
                       ELSE IF key = "vision_analysis"
                       THEN [ocr_data EXCEPT ![k].elements[r.idx].vision_analysis = r.analysis]
                       ELSE [ocr_data EXCEPT ![k].elements[r.idx].table_analysis = r.analysis]
         IN  apply_results(stored, Tail(results), key)

\* the folders at the start: the OCR files of one or two documents and the
\* common OCR file; the output folder is another folder and is empty
OcrFolders ==
    {[f \in {OcrFileA, AllDocumentsOcr} \cup (IF withB THEN {OcrFileB} ELSE {}) |->
        IF f = OcrFileA THEN OcrData(n, tables)
        ELSE IF f = OcrFileB THEN OcrData(1, TRUE)
        ELSE << >>] :
     n \in {0, 1, MaxImages}, tables \in BOOLEAN, withB \in BOOLEAN}

InitOcr ==
    /\ batch_info = NoFile
    /\ outputs = EmptyMap
    /\ batch_file = NoFile
    /\ analyzed_data = << >>
    /\ svc_files = << >>
    /\ svc_jobs = << >>
    /\ last = NoOp
    /\ crash = NoCrash
    /\ codec = NoCodec
    /\ compiled = NoCompiled
    /\ \E folder \in OcrFolders : ocr = [NoOcr EXCEPT !.ocr_folder = folder]
    /\ runner = NoRunner

\* process_ocr_data_async up to the loop over the files
StartRun ==
    /\ ocr.pc = "idle"
    /\ ocr.run < MaxRuns
    /\ ocr' = [ocr EXCEPT
            !.pc = "files",
            !.ocr_files_to_process = ocr_files_to_process(ocr.ocr_folder, ocr.output_folder),
            !.all_results = load_analyzed(glob(ocr.output_folder, AnalyzedSuffix),
                                          ocr.output_folder, EmptyMap),
            !.requests = 0,
            !.issued = {}]
    /\ UNCHANGED << pipeline, codec, compiled, runner >>

\* the next file is read and its images and tables are collected
OpenFile ==
    /\ ocr.pc = "files"
    /\ Len(ocr.ocr_files_to_process) > 0
    /\ \E file_name \in {Head(ocr.ocr_files_to_process)} :
        \E ocr_data \in {ocr.ocr_folder[file_name]} :
            ocr' = [ocr EXCEPT
                !.pc = "images",
                !.ocr_files_to_process = Tail(@),
                !.file_name = file_name,
                !.ocr_data = ocr_data,
                !.pending = to_analyze(ocr_data, "images"),
                !.tables_to_analyze = to_analyze(ocr_data, "tables"),
                !.wave = << >>,
                !.waves = 0,
                !.awaiting = FALSE,
                !.resolved = {},
                !.failed = {}]
    /\ UNCHANGED << pipeline, codec, compiled, runner >>

\* the requests of the service that have not resolved
InFlightRequests == {i \in 1..Len(ocr.wave) : ocr.wave[i].state = "in_flight"}

\* asyncio.gather starts the coroutines of the next batch; process_ocr_data_async
\* waits for it (awaiting)
IssueWave ==
    /\ ocr.pc \in {"images", "tables"}
    /\ ~ocr.awaiting
    /\ Len(ocr.pending) > 0
    /\ \E batch \in {next_batch(ocr.pending)} :
        \E wave \in {[i \in 1..Len(batch) |-> start_request(ocr.ocr_data, batch[i])]} :
            ocr' = [ocr EXCEPT
                !.wave = @ \o wave,
                !.awaiting = TRUE,
                !.waves = @ + 1,
                !.pending = Tail_from(@, Len(batch) + 1),
                !.requests = @ + Cardinality({i \in 1..Len(wave) : wave[i].state = "in_flight"}),
                !.issued = IF \E i \in 1..Len(wave) : wave[i].state = "in_flight"
                           THEN @ \cup {ocr.file_name} ELSE @]
    /\ UNCHANGED << pipeline, codec, compiled, runner >>

\* the service answers a request that is in flight
RequestSucceeds ==
    /\ \E i \in 1..Len(ocr.wave) :
        /\ ocr.wave[i].state = "in_flight"
        /\ \E analysis \in {analysis_of(ocr.file_name, ocr.wave[i].page, ocr.wave[i].idx)} :
            ocr' = [ocr EXCEPT
                !.wave[i].state = "ok",
                !.wave[i].analysis = analysis,
                !.resolved = @ \cup {[key |-> ocr.pc, page |-> ocr.wave[i].page,
                                      idx |-> ocr.wave[i].idx, analysis |-> analysis]}]
    /\ UNCHANGED << pipeline, codec, compiled, runner >>

\* request_failed that lets the exception leave gather: the requests of the
\* wave that are still in flight are given up
request_failed_gives_up_wave(wave, i) ==
    [k \in 1..Len(wave) |->
        IF wave[k].state = "in_flight" THEN [wave[k] EXCEPT !.state = "failed"] ELSE wave[k]]

\* except Exception: log, return (page_number, element_index, None)
request_failed(wave, i) == [wave EXCEPT ![i].state = "failed"]

\* the call of the service raises: the coroutine logs and returns None
RequestFails ==
    /\ ocr.failures < MaxFailures
    /\ \E i \in 1..Len(ocr.wave) :
        /\ ocr.wave[i].state = "in_flight"
        /\ ocr' = [ocr EXCEPT
                !.wave = request_failed(@, i),
                !.failures = @ + 1,
                !.failed = @ \cup {[key |-> ocr.pc, page |-> ocr.wave[i].page,
                                    idx |-> ocr.wave[i].idx]}]
    /\ UNCHANGED << pipeline, codec, compiled, runner >>

\* gather returns the results in the order of the batch; they are stored on
\* the elements; a request that has not resolved stays in flight
ApplyWave ==
    /\ ocr.pc \in {"images", "tables"}
    /\ ocr.awaiting
    /\ gather_done(ocr.wave)
    /\ ocr' = [ocr EXCEPT
            !.ocr_data = apply_results(@,
                            SelectSeq(ocr.wave, LAMBDA r : r.state # "in_flight"),
                            IF ocr.pc = "images" THEN "vision_analysis" ELSE "table_analysis"),
            !.wave = SelectSeq(@, LAMBDA r : r.state = "in_flight"),
            !.awaiting = FALSE]
    /\ UNCHANGED << pipeline, codec, compiled, runner >>

\* the images are done: the tables follow
ImagesDone ==
    /\ ocr.pc = "images"
    /\ ~ocr.awaiting
    /\ Len(ocr.pending) = 0
    /\ ocr' = [ocr EXCEPT !.pc = "tables", !.pending = ocr.tables_to_analyze,
                          !.tables_to_analyze = << >>]
    /\ UNCHANGED << pipeline, codec, compiled, runner >>

\* the tables are done: the data of the file is saved and added to all_results
SaveFile ==
    /\ ocr.pc = "tables"
    /\ ~ocr.awaiting
    /\ Len(ocr.pending) = 0
    /\ ocr' = [ocr EXCEPT
            !.pc = "files",
            !.output_folder = Put(@, analyzed_file(ocr.file_name), ocr.ocr_data),
            !.all_results = Put(@, pdf_name_of(ocr.file_name), ocr.ocr_data),
            !.file_name = << >>,
            !.ocr_data = << >>,
            !.wave = << >>,
            !.waves = 0,
            !.resolved = {},
            !.failed = {}]
    /\ UNCHANGED << pipeline, codec, compiled, runner >>

\* every file is done: the common result is saved and returned
FinishRun ==
    /\ ocr.pc = "files"
    /\ Len(ocr.ocr_files_to_process) = 0
    /\ ocr' = [ocr EXCEPT
            !.pc = "idle",
            !.run = @ + 1,
            !.output_folder = Put(@, AllDocumentsAnalyzed, ocr.all_results),
            !.returned = Append(@, [keys |-> DOMAIN ocr.all_results,
                                    requests |-> ocr.requests,
                                    issued |-> ocr.issued]),
            !.all_results = EmptyMap]
    /\ UNCHANGED << pipeline, codec, compiled, runner >>

NextOcr ==
    \/ StartRun
    \/ OpenFile
    \/ IssueWave
    \/ RequestSucceeds
    \/ RequestFails
    \/ ApplyWave
    \/ ImagesDone
    \/ SaveFile
    \/ FinishRun

SpecOcr == InitOcr /\ [][NextOcr]_vars

\* ------------------------------------- run_pdf_preprocessor: step runner
\* the last step of the pipeline
LastStep == 5

\* the script that step k runs
step_script(k) ==
    CASE k = 1 -> "zip_extract.py"
      [] k = 2 -> "pdf_extract.py"
      [] k = 3 -> "llm_img_tbl_job.py"
      [] k = 4 -> "llm_extct_meta.py"
      [] k = 5 -> "aggregated.py"

\* step_selected that leaves out the step named by --start_step
step_selected_after(start_step, k) == start_step < k

\* if args.start_step <= k
step_selected(start_step, k) == start_step <= k

\* --start_step: any integer
StartSteps == (-1)..MaxStartStep

InitRunner ==
    /\ batch_info = NoFile
    /\ outputs = EmptyMap
    /\ batch_file = NoFile
    /\ analyzed_data = << >>
    /\ svc_files = << >>
    /\ svc_jobs = << >>
    /\ last = NoOp
    /\ crash = NoCrash
    /\ codec = NoCodec
    /\ compiled = NoCompiled
    /\ ocr = NoOcr
    /\ \E start_step \in StartSteps :
        runner = [NoRunner EXCEPT !.start_step = start_step, !.step = 1]

\* main is at the test of step k and has not ended
AtStep(k) ==
    /\ ~runner.returned
    /\ ~runner.raised
    /\ runner.step = k
    /\ k \in 1..LastStep

\* what run_command leaves in the list of the steps run
step_run(k, outcome) == [step |-> k, script |-> step_script(k), outcome |-> outcome]

\* the step is below --start_step: it is not run
SkipStep ==
    /\ \E k \in 1..LastStep :
        /\ AtStep(k)
        /\ ~step_selected(runner.start_step, k)
        /\ runner' = [runner EXCEPT !.step = k + 1]
    /\ UNCHANGED << pipeline, codec, compiled, ocr >>

\* run_command returns True: the command ended with status 0
StepSucceeds ==
    /\ \E k \in 1..LastStep :
        /\ AtStep(k)
        /\ step_selected(runner.start_step, k)
        /\ runner' = [runner EXCEPT !.step = k + 1, !.ran = Append(@, step_run(k, "ok"))]
    /\ UNCHANGED << pipeline, codec, compiled, ocr >>

\* run_command returns False (CalledProcessError): main returns 1
StepFails ==
    /\ \E k \in 1..LastStep :
        /\ AtStep(k)
        /\ step_selected(runner.start_step, k)
        /\ runner' = [runner EXCEPT !.ran = Append(@, step_run(k, "failed")),
                                    !.returned = TRUE, !.ret = 1]
    /\ UNCHANGED << pipeline, codec, compiled, ocr >>

\* subprocess.run raises another exception (the interpreter is not found):
\* run_command does not catch it and it leaves main
StepRaises ==
    /\ \E k \in 1..LastStep :
        /\ AtStep(k)
        /\ step_selected(runner.start_step, k)
        /\ runner' = [runner EXCEPT !.ran = Append(@, step_run(k, "raised")),
                                    !.raised = TRUE]
    /\ UNCHANGED << pipeline, codec, compiled, ocr >>

\* after the last step: return 0
ReturnZero ==
    /\ ~runner.returned
    /\ ~runner.raised
    /\ runner.step = LastStep + 1
    /\ runner' = [runner EXCEPT !.returned = TRUE, !.ret = 0]
    /\ UNCHANGED << pipeline, codec, compiled, ocr >>

NextRunner ==
    \/ SkipStep
    \/ StepSucceeds
    \/ StepFails
    \/ StepRaises
    \/ ReturnZero

SpecRunner == InitRunner /\ [][NextRunner]_vars

\* ------------------------------------------------------------- properties
\* statuses of the batch service for a job that has not ended yet
InFlight == {"validating", "in_progress", "finalizing"}

\* the entries of the analyzed-data file
Entries == {analyzed_data[i] : i \in 1..Len(analyzed_data)}
PageSet(e) == {e.pages[i] : i \in 1..Len(e.pages)}

\* the step is a Driver run / a Reconciler call (alone or inside the Driver)
DriverRan == last'.op = "process_all_pdfs"
CheckRan == last'.check_called

\* C1: a Driver run that finds a Job Record whose job the service reports as
\* in flight creates no external job, and the record stays, with its batch_id
C1_AtMostOneOutstandingJob ==
    [][(/\ DriverRan
        /\ IsRecord(batch_info)
        /\ svc_jobs[batch_info.batch_id].status \in InFlight
        /\ last'.check_ret = svc_jobs[batch_info.batch_id].status)
       => /\ Len(svc_jobs') = Len(svc_jobs)
          /\ Len(svc_files') = Len(svc_files)
          /\ IsRecord(batch_info')
          /\ batch_info'.batch_id = batch_info.batch_id]_vars

\* C2: a Driver run whose status check returned "error" neither deletes the
\* Job Record nor submits a new batch job
C2_ErrorIsTryAgainLater ==
    [][(DriverRan /\ last'.check_called /\ last'.check_ret = "error")
       => /\ batch_info' # NoFile
          /\ ~last'.submit_called
          /\ Len(svc_jobs') = Len(svc_jobs)]_vars

\* the result lines of the job the Job Record names
ResultLines == svc_jobs[batch_info.batch_id].output

\* the pages of document e that the result lines cover
Covered(e) ==
    {p \in PageSet(e) :
        \E i \in 1..Len(ResultLines) : ResultLines[i].custom_id = custom_id(e.pdf, p)}

\* C3: after a reconciliation returned "completed_and_processed", the artifact
\* of every document of the results maps exactly the pages the results cover
\* for it, each to the response of the result line of that document and page
C3_ReconciliationCompleteness ==
    [][(CheckRan /\ last'.check_ret = "completed_and_processed")
       => \A e \in Entries :
            Covered(e) # {} =>
                /\ output_file(e.pdf) \in DOMAIN outputs'
                /\ DOMAIN outputs'[output_file(e.pdf)] = Covered(e)
                /\ \A i \in 1..Len(ResultLines) : \A p \in Covered(e) :
                        ResultLines[i].custom_id = custom_id(e.pdf, p)
                        => outputs'[output_file(e.pdf)][p] = ResultLines[i].response]_vars

\* C4: an output artifact that exists holds an entry for every page of its
\* document
C4_OutputOnlyWhenFullyReconciled ==
    \A e \in Entries :
        output_file(e.pdf) \in DOMAIN outputs
        => PageSet(e) \subseteq DOMAIN outputs[output_file(e.pdf)]

\* C5: when a reconciliation returns "completed_and_processed" the Job Record
\* is gone and every document of the downloaded results has its artifact
C5_CleanupOnSuccess ==
    [][(CheckRan /\ last'.check_ret = "completed_and_processed")
       => /\ batch_info' = NoFile
          /\ \A e \in Entries :
                Covered(e) # {} => output_file(e.pdf) \in DOMAIN outputs']_vars

C5_Witness ==
    /\ last.check_called
    /\ last.check_ret = "completed_and_processed"
    /\ batch_info = NoFile
    /\ DOMAIN outputs # {}

\* C6: with no Job Record and an artifact on disk for every candidate
\* document, a Driver run calls the service not at all, creates no job and no
\* Job Record
C6_IdempotentSkip ==
    [][(/\ DriverRan
        /\ batch_info = NoFile
        /\ \A e \in Entries : output_file(e.pdf) \in DOMAIN outputs)
       => /\ Len(svc_jobs') = Len(svc_jobs)
          /\ Len(svc_files') = Len(svc_files)
          /\ last'.calls = << >>
          /\ batch_info' = NoFile]_vars

C6_Witness ==
    /\ last.op = "process_all_pdfs"
    /\ last.ret = "no_new_pdfs"
    /\ ~last.check_called
    /\ Len(analyzed_data) > 0
    /\ \A e \in Entries : output_file(e.pdf) \in DOMAIN outputs
    /\ batch_info = NoFile

\* the identifier is free of the reserved separators
FreeOfSeparators(doc, page) ==
    /\ ~Contains(doc, Separator)
    /\ ~Contains(page, Separator)
    /\ ~Contains(page, PagePrefix)

\* the identifier of (codec.doc, codec.page) was decoded to the same pair
RoundTripExact ==
    /\ codec.ok
    /\ codec.pdf = codec.doc
    /\ codec.decoded_page = codec.page

\* C7 as stated: every pair free of the reserved separators is recovered
C7_RoundTripAsStated ==
    (codec.stage = "decoded" /\ FreeOfSeparators(codec.doc, codec.page))
    => RoundTripExact

\* C7: every pair free of the reserved separators whose document does not
\* end with "_" is recovered exactly by decoding its correlation identifier
C7_RoundTrip ==
    (/\ codec.stage = "decoded"
     /\ FreeOfSeparators(codec.doc, codec.page)
     /\ (Len(codec.doc) = 0 \/ codec.doc[Len(codec.doc)] # "_"))
    => RoundTripExact

C7_Witness ==
    /\ codec.stage = "decoded"
    /\ Len(codec.doc) > 0
    /\ Len(codec.page) > 0
    /\ Contains(codec.doc, << "_" >>)
    /\ Contains(codec.page, << "_" >>)
    /\ FreeOfSeparators(codec.doc, codec.page)
    /\ codec.doc[Len(codec.doc)] # "_"
    /\ RoundTripExact

\* C8: when submit_batch_job returns None no Job Record is on disk, not even
\* a partial one; it returns a job id exactly when the complete Job Record of
\* that id was persisted
C8_SubmitFailureLeavesNoRecord ==
    [][(DriverRan /\ last'.submit_called)
       => /\ last'.submit_ret = None => batch_info' = NoFile
          /\ last'.submit_ret # None
                <=> (IsRecord(batch_info') /\ batch_info'.batch_id = last'.submit_ret)]_vars

\* the documents a Driver run finds without an output artifact
Remaining == {e \in Entries : output_file(e.pdf) \notin DOMAIN outputs}

\* C9: a successful submit_batch_job makes one upload and one job, persists
\* the Job Record of the returned id, with the handle of the uploaded file,
\* the status "submitted" and the skeleton of the submitted documents
C9_SubmitSuccess ==
    [][(DriverRan /\ last'.submit_called /\ last'.submit_ret # None)
       => /\ Len(svc_files') = Len(svc_files) + 1
          /\ Len(svc_jobs') = Len(svc_jobs) + 1
          /\ SubSeq(svc_jobs', 1, Len(svc_jobs)) = svc_jobs
          /\ last'.submit_ret = Len(svc_jobs')
          /\ IsRecord(batch_info')
          /\ batch_info'.batch_id = last'.submit_ret
          /\ batch_info'.input_file_id = Len(svc_files')
          /\ svc_jobs'[last'.submit_ret].input_file_id = Len(svc_files')
          /\ batch_info'.status = "submitted"
          /\ DOMAIN batch_info'.metadata = {e.pdf : e \in Remaining}
          /\ \A e \in Remaining :
                /\ DOMAIN batch_info'.metadata[e.pdf].pages = PageSet(e)
                /\ \A p \in PageSet(e) :
                        batch_info'.metadata[e.pdf].pages[p].status = "queued"]_vars

C9_Witness ==
    /\ last.op = "process_all_pdfs"
    /\ last.submit_called
    /\ last.submit_ret # None
    /\ IsRecord(batch_info)
    /\ batch_info.batch_id = last.submit_ret
    /\ Len(svc_files) > Len(svc_jobs)

\* C10: with no Job Record, check_batch_status returns "not_found", calls the
\* service not at all and changes no file
C10_NotFoundIdempotent ==
    [][(last'.op = "check_batch_status" /\ batch_info = NoFile)
       => /\ last'.ret = "not_found"
          /\ last'.calls = << >>
          /\ UNCHANGED << batch_info, outputs, batch_file, analyzed_data,
                          svc_files, svc_jobs >>]_vars

C10_Witness ==
    /\ last.op = "check_batch_status"
    /\ last.ret = "not_found"
    /\ batch_info = NoFile
    /\ DOMAIN outputs # {}
    /\ \E b \in 1..Len(svc_jobs) : svc_jobs[b].status = "completed"

\* a step that is one call of check_batch_status from main
CheckOnlyRan == last'.op = "check_batch_status"

\* C11: a call of check_batch_status on a Job Record that has no batch_id,
\* or whose status retrieval raises, returns "error", writes or changes no
\* output artifact and leaves the content of the Job Record as it was
C11_ErrorLeavesRecordUntouched ==
    [][(CheckRan /\ (  (IsRecord(batch_info) /\ batch_info.batch_id = None)
                     \/ last'.check_raised = "retrieve"))
        => /\ last'.check_ret = "error"
           /\ outputs' = outputs
           /\ CheckOnlyRan => batch_info' = batch_info]_vars

\* a call on the record without batch_id has returned "error"
C11_Witness ==
    /\ last.op = "check_batch_status"
    /\ last.check_ret = "error"
    /\ batch_info = record_without_batch_id

\* the job of the service that the Job Record names
RecordedJob == svc_jobs[batch_info.batch_id]

\* the Driver returned without deleting the record
DriverKeptRecord == last'.ret \in {"already_processed", "still_processing"}

\* C12: when the service reports a status other than "completed" with an
\* output file, check_batch_status saves that status in the status field of
\* the Job Record, changes no other field and no output artifact, keeps the
\* record and returns that status
C12_StatusRefreshOnly ==
    [][(/\ CheckRan
        /\ IsRecord(batch_info)
        /\ batch_info.batch_id # None
        /\ last'.check_raised = ""
        /\ ~(RecordedJob.status = "completed" /\ RecordedJob.output_file_id # None))
        => /\ last'.check_ret = RecordedJob.status
           /\ outputs' = outputs
           /\ (CheckOnlyRan \/ DriverKeptRecord)
                => batch_info' = [batch_info EXCEPT !.status = RecordedJob.status]]_vars

\* a call has saved and returned the status of a job that expired
C12_Witness ==
    /\ last.op = "check_batch_status"
    /\ last.check_ret = "expired"
    /\ IsRecord(batch_info)
    /\ batch_info.status = "expired"
    /\ svc_jobs[batch_info.batch_id].status = "expired"

\* C13: after a kill of check_batch_status between its first output write
\* and the removal of the Job Record, the next call that runs to its end
\* returns "completed_and_processed", removes the record and leaves exactly
\* the outputs of a run that was not killed
C13_CrashRecovery ==
    [][(crash.pending /\ CheckRan /\ last'.check_raised = "")
        => /\ last'.check_ret = "completed_and_processed"
           /\ batch_info' = NoFile
           /\ outputs' = crash.crash_free]_vars

\* the call after a kill has reconciled a job of two documents or more
C13_Witness ==
    /\ crash.recovered
    /\ last.check_ret = "completed_and_processed"
    /\ batch_info = NoFile
    /\ Cardinality(DOMAIN outputs) >= 2

\* the call reaches the results of a completed job: the record is read, the
\* status retrieved and saved and the output file downloaded
ResultsDownloaded ==
    /\ CheckRan
    /\ IsRecord(batch_info)
    /\ batch_info.batch_id # None
    /\ RecordedJob.status = "completed"
    /\ RecordedJob.output_file_id # None
    /\ last'.check_raised \notin {"retrieve", "dump_status", "download"}

\* every line of the downloaded file has an identifier of two parts
AllLinesSplit ==
    \A i \in 1..Len(RecordedJob.output) : SplitOk(RecordedJob.output[i].custom_id)

\* C14: a call of check_batch_status changes an output artifact only when
\* every line of the result file was parsed and split; when a line is not
\* JSON or an identifier does not split into two parts, the call changes no
\* output artifact and returns "error"
C14_NoOutputFromPartialResults ==
    [][/\ (CheckRan /\ outputs' # outputs)
            => ResultsDownloaded /\ AllLinesSplit /\ last'.check_raised = ""
       /\ (ResultsDownloaded /\ (last'.check_raised = "parse" \/ ~AllLinesSplit))
            => outputs' = outputs /\ last'.check_ret = "error"]_vars

\* a call found an identifier of three parts after a line that splits
C14_Witness ==
    /\ last.check_called
    /\ last.check_raised = "split"
    /\ last.check_ret = "error"
    /\ \E b \in 1..Len(svc_jobs) :
        /\ Len(svc_jobs[b].output) = 2
        /\ SplitOk(svc_jobs[b].output[1].custom_id)
        /\ ~SplitOk(svc_jobs[b].output[2].custom_id)

\* the last Driver run failed: process_all_pdfs raised, or submit_batch_job
\* was called and returned None
RunFailed ==
    \/ last.ret = "raised"
    \/ last.submit_called /\ last.submit_ret = None

\* C15: a run of main that calls process_all_pdfs ends with a non-zero exit
\* status when the run failed, and with status 0 only when it did not fail
C15_FailureInExitStatus ==
    last.op = "process_all_pdfs" => (RunFailed <=> last.exit_status # 0)

\* the (document, page) pairs of the mapping given to the compiler
CompiledPairs ==
    UNION {{<< compiled.pdf_data[i].pdf, compiled.pdf_data[i].pages[j] >> :
                j \in 1..Len(compiled.pdf_data[i].pages)} : i \in 1..Len(compiled.pdf_data)}

\* the number of pages of all the documents of a mapping
RECURSIVE TotalPages(_)
TotalPages(pdf_data) ==
    IF Len(pdf_data) = 0 THEN 0
    ELSE Len(Head(pdf_data).pages) + TotalPages(Tail(pdf_data))

\* as many lines as pages, and the identifier of every pair on a line
OneLinePerPair ==
    /\ Len(compiled.batch_file) = TotalPages(compiled.pdf_data)
    /\ \A pr \in CompiledPairs :
        \E i \in 1..Len(compiled.batch_file) :
            compiled.batch_file[i].custom_id = custom_id(pr[1], pr[2])

\* no two lines have the same correlation identifier
DistinctIds ==
    \A i, j \in 1..Len(compiled.batch_file) :
        i # j => compiled.batch_file[i].custom_id # compiled.batch_file[j].custom_id

\* the skeleton has the input documents, each with its pages, all "queued"
SkeletonOfInput ==
    /\ DOMAIN compiled.batch_metadata =
            {compiled.pdf_data[i].pdf : i \in 1..Len(compiled.pdf_data)}
    /\ \A i \in 1..Len(compiled.pdf_data) :
        LET e == compiled.pdf_data[i]
            meta == compiled.batch_metadata[e.pdf]
        IN  /\ DOMAIN meta = {"pages"}
            /\ DOMAIN meta.pages = {e.pages[j] : j \in 1..Len(e.pages)}
            /\ \A pg \in DOMAIN meta.pages : meta.pages[pg] = [status |-> "queued"]

\* no page identifier of the mapping holds "__page-"
PagesFreeOfPageSeparator ==
    \A pr \in CompiledPairs : ~Contains(pr[2], Separator \o PagePrefix)

\* C16 as stated: for every mapping, prepare_batch_file writes one line per
\* (document, page) pair, the identifiers of the lines are pairwise
\* distinct, and the skeleton has the documents and pages of the input,
\* every page "queued"
C16_CompilerGuaranteeAsStated ==
    compiled.stage = "compiled" => OneLinePerPair /\ DistinctIds /\ SkeletonOfInput

\* C16: for every mapping, prepare_batch_file writes one line per (document,
\* page) pair and returns the skeleton of the input, every page "queued";
\* the identifiers of the lines are pairwise distinct when no page
\* identifier holds "__page-"
C16_CompilerGuarantee ==
    compiled.stage = "compiled"
        => /\ OneLinePerPair
           /\ SkeletonOfInput
           /\ PagesFreeOfPageSeparator => DistinctIds

\* two documents of two pages each have been compiled into four lines
C16_Witness ==
    /\ compiled.stage = "compiled"
    /\ Len(compiled.pdf_data) = 2
    /\ Len(compiled.batch_file) = 4
    /\ PagesFreeOfPageSeparator

\* C17: process_ocr_data_async sends no description request for an OCR file
\* whose *_analyzed.json output is in the output folder; a second run right
\* after a first one sends no request and returns the document keys of the
\* first
C17_AnalysedFilesSkipped ==
    /\ (\E i \in 1..Len(ocr.wave) : ocr.wave[i].state = "in_flight")
            => analyzed_file(ocr.file_name) \notin DOMAIN ocr.output_folder
    /\ Len(ocr.returned) >= 2
            => /\ ocr.returned[2].requests = 0
               /\ ocr.returned[2].keys = ocr.returned[1].keys

\* C18: at every instant of process_ocr_data_async at most
\* MAX_CONCURRENT_REQUESTS description requests have been sent to the
\* service and have not resolved
C18_ConcurrencyCap == Cardinality(InFlightRequests) <= MAX_CONCURRENT_REQUESTS

\* a full wave is in flight and more images wait for the next one
C18_Witness ==
    /\ Cardinality(InFlightRequests) = MAX_CONCURRENT_REQUESTS
    /\ Len(ocr.pending) > 0

\* the result of a request that resolved with a text is on its element
Stored(r) ==
    LET e == element_at(ocr.ocr_data, r.page, r.idx)
    IN  IF r.key = "images" THEN e.vision_analysis = r.analysis
        ELSE e.table_analysis = r.analysis

\* every analysis on an element of the file is the answer to the request
\* sent for that element
OwnAnalysis ==
    \A k \in 1..Len(ocr.ocr_data) : \A i \in 1..Len(ocr.ocr_data[k].elements) :
        LET e == ocr.ocr_data[k].elements[i]
            own == analysis_of(ocr.file_name, ocr.ocr_data[k].page, i)
        IN  /\ e.vision_analysis \in {NoAnalysis, own}
            /\ e.table_analysis \in {NoAnalysis, own}

\* C19: a wave is issued only when every request of the waves before it has
\* resolved and every result with a text is stored on the element the
\* request was sent for; an analysis is never stored on another element
C19_WaveBarrier ==
    [][/\ ocr'.waves > ocr.waves
            => /\ InFlightRequests = {}
               /\ \A r \in ocr.resolved : Stored(r)
       /\ OwnAnalysis']_vars

\* the second wave of a file is in flight after a first wave in which a
\* request failed
C19_Witness ==
    /\ ocr.waves = 2
    /\ InFlightRequests # {}
    /\ Cardinality(ocr.resolved) = MAX_CONCURRENT_REQUESTS - 1
    /\ ocr.failures = 1

\* the steps that --start_step selects
SelectedSteps == {k \in 1..LastStep : runner.start_step <= k}

\* the steps run so far
RanSteps == {runner.ran[i].step : i \in 1..Len(runner.ran)}

\* C20: the pipeline runner runs the steps from start_step to 5 in
\* increasing order, each at most once and none below start_step; a step is
\* started only when every step run before it succeeded; at the first step
\* that fails no later step is run and main returns 1; main returns 0 if and
\* only if every step from start_step to 5 was run and succeeded
C20_StepRunner ==
    /\ \A i, j \in 1..Len(runner.ran) : i < j => runner.ran[i].step < runner.ran[j].step
    /\ RanSteps \subseteq SelectedSteps
    /\ \A k \in RanSteps : \A m \in SelectedSteps : m < k => m \in RanSteps
    /\ \A i \in 1..Len(runner.ran) : i < Len(runner.ran) => runner.ran[i].outcome = "ok"
    /\ \A i \in 1..Len(runner.ran) :
        runner.ran[i].outcome = "failed" => runner.returned /\ runner.ret = 1
    /\ runner.returned
        => (runner.ret = 0 <=> /\ RanSteps = SelectedSteps
                               /\ \A i \in 1..Len(runner.ran) : runner.ran[i].outcome = "ok")
    /\ runner.returned => runner.ret \in {0, 1}
    /\ runner.raised => ~runner.returned

\* started at step 2, the runner ran steps 2 and 3, step 4 failed and main
\* returned 1
C20_Witness ==
    /\ runner.start_step = 2
    /\ runner.returned
    /\ runner.ret = 1
    /\ Len(runner.ran) = 3
    /\ runner.ran[3] = step_run(4, "failed")

\* the record was there and the call of check_batch_status removed it: the
\* call from main, or the call inside a Driver run that stopped on its result
RecordRemovedByCheck ==
    /\ CheckRan
    /\ batch_info # NoFile
    /\ batch_info' = NoFile
    /\ (CheckOnlyRan \/ DriverKeptRecord)

\* every document of the result lines has its artifact, written by this call
\* from the results of the recorded job
ArtifactsWritten ==
    \A i \in 1..Len(ResultLines) :
        LET f == output_file(decode_custom_id(ResultLines[i].custom_id).pdf)
        IN  /\ f \in DOMAIN outputs'
            /\ \A p \in DOMAIN outputs'[f] : outputs'[f][p].batch = batch_info.batch_id

\* C21: check_batch_status removes the Job Record only when the service
\* reported "completed" with an output file, the file was downloaded and the
\* artifact of every document of the results was written
C21_RecordDeletedOnlyAfterSuccess ==
    [][RecordRemovedByCheck
       => /\ IsRecord(batch_info)
          /\ RecordedJob.status = "completed"
          /\ RecordedJob.output_file_id # None
          /\ last'.check_ret = "completed_and_processed"
          /\ last'.check_raised = ""
          /\ \E k \in 1..Len(last'.calls) : last'.calls[k] = "files.content"
          /\ ArtifactsWritten]_vars

\* a call from main removed the record of a job with results for two files
C21_Witness ==
    /\ last.op = "check_batch_status"
    /\ last.check_ret = "completed_and_processed"
    /\ batch_info = NoFile
    /\ Cardinality(DOMAIN outputs) >= 2
    /\ \E k \in 1..Len(last.calls) : last.calls[k] = "files.content"

\* statuses of the batch service for a job that ended without results
TerminalFailure == {"failed", "expired", "cancelled"}

\* the Driver run found a record and its check returned a terminal failure
AbandonedRun ==
    /\ DriverRan
    /\ IsRecord(batch_info)
    /\ last'.check_called
    /\ last'.check_ret \in TerminalFailure

\* C22: a Driver run whose check returned failed, expired or cancelled removes
\* the stale record and goes on to the submission path in the same run: it
\* submits when a candidate document lacks its artifact, and a submission that
\* succeeds leaves one record, which names the one job created by the run
C22_AbandonAndResubmit ==
    [][AbandonedRun
       => /\ batch_info' # batch_info
          /\ last'.ret \notin {"already_processed", "still_processing"}
          /\ (Remaining # {} /\ last'.ret # "raised") => last'.submit_called
          /\ Remaining = {} => (~last'.submit_called /\ batch_info' = NoFile)
          /\ (last'.submit_called /\ last'.submit_ret # None)
                => /\ IsRecord(batch_info')
                   /\ batch_info'.batch_id = last'.submit_ret
                   /\ batch_info'.batch_id # batch_info.batch_id
                   /\ Len(svc_jobs') = Len(svc_jobs) + 1
                   /\ batch_info'.batch_id = Len(svc_jobs')]_vars

\* a Driver run has replaced the record of a cancelled job by a new one
C22_Witness ==
    /\ last.op = "process_all_pdfs"
    /\ last.check_ret = "cancelled"
    /\ last.submit_ret # None
    /\ IsRecord(batch_info)
    /\ batch_info.batch_id = last.submit_ret
    /\ svc_jobs[1].status = "cancelled"

\* the request file that the Driver run uploaded
UploadedFile == svc_files'[Len(svc_files')]

\* the Driver run uploaded a request file
Uploaded == DriverRan /\ Len(svc_files') = Len(svc_files) + 1

\* C23: the request file a Driver run uploads names exactly the candidate
\* documents without an artifact, with one request per page of each, and so
\* does the skeleton of the record; with no such document nothing is
\* submitted
C23_BatchCoversRemaining ==
    [][/\ Uploaded
            => /\ last'.submit_called
               /\ outputs' = outputs
               /\ {decode_custom_id(UploadedFile[i].custom_id).pdf : i \in 1..Len(UploadedFile)}
                    = {e.pdf : e \in Remaining}
               /\ \A e \in Remaining : \A p \in PageSet(e) :
                    Cardinality({i \in 1..Len(UploadedFile) :
                                    UploadedFile[i].custom_id = custom_id(e.pdf, p)}) = 1
               /\ \A i \in 1..Len(UploadedFile) : \E e \in Remaining : \E p \in PageSet(e) :
                    UploadedFile[i].custom_id = custom_id(e.pdf, p)
               /\ \A e \in Entries : output_file(e.pdf) \in DOMAIN outputs
                    => \A i \in 1..Len(UploadedFile) :
                            decode_custom_id(UploadedFile[i].custom_id).pdf # e.pdf
       /\ (DriverRan /\ last'.submit_called /\ last'.submit_ret # None)
            => DOMAIN batch_info'.metadata = {e.pdf : e \in Remaining}
       /\ (DriverRan /\ Remaining = {})
            => /\ ~last'.submit_called
               /\ Len(svc_files') = Len(svc_files)
               /\ Len(svc_jobs') = Len(svc_jobs)]_vars

\* a Driver run has submitted a second batch that leaves out a document
\* whose artifact exists
C23_Witness ==
    /\ last.op = "process_all_pdfs"
    /\ last.submit_called
    /\ Len(svc_files) = 2
    /\ DOMAIN outputs # {}
    /\ Len(svc_files[2]) < Len(svc_files[1])

\* C24: when a Driver run that compiled a batch returns, the staging request
\* file is gone, whether submit_batch_job returned a job id or None
C24_StagingFileRemoved ==
    [][(DriverRan /\ last'.submit_called) => batch_file' = NoFile]_vars

\* a Driver run whose submission returned None has ended without the staging
\* file, and an earlier submission had uploaded its request file
C24_Witness ==
    /\ last.op = "process_all_pdfs"
    /\ last.submit_called
    /\ last.submit_ret = None
    /\ batch_file = NoFile
    /\ Len(svc_files) >= 1

\* the record after the run is the one before it with the status that the
\* service reports: the refresh by check_batch_status
RecordRefreshed ==
    /\ IsRecord(batch_info)
    /\ last'.check_called
    /\ last'.check_raised = ""
    /\ batch_info' = [batch_info EXCEPT !.status = RecordedJob.status]

\* the record after the run is the one submit_batch_job wrote: complete for
\* the job it returned, or cut short when it returned None
RecordCreated ==
    /\ last'.submit_called
    /\ \/ /\ last'.submit_ret # None
          /\ IsRecord(batch_info')
          /\ batch_info'.batch_id = last'.submit_ret
          /\ batch_info'.status = "submitted"
       \/ /\ last'.submit_ret = None
          /\ batch_info' = Partial

\* there is no record after the run: there was none, check_batch_status
\* removed it on success, or the Driver removed it on abandonment
RecordAbsent ==
    /\ batch_info' = NoFile
    /\ \/ batch_info = NoFile
       \/ last'.check_ret = "completed_and_processed"
       \/ /\ last'.check_called
          /\ last'.check_ret \notin {"completed", "completed_and_processed",
                                     "submitted", "in_progress"}

\* C25: the content of the Job Record after a Driver run is what
\* check_batch_status or submit_batch_job wrote; the Driver itself only
\* removes the record, and only on abandonment
C25_DriverFrameOnRecord ==
    [][DriverRan => (RecordRefreshed \/ RecordCreated \/ RecordAbsent)]_vars

\* a Driver run has abandoned the record of a job that ended without
\* results, could not load the analyzed data and left no record
C25_Witness ==
    /\ last.op = "process_all_pdfs"
    /\ last.check_called
    /\ last.check_ret \in {"failed", "expired"}
    /\ last.ret = "raised"
    /\ ~last.submit_called
    /\ batch_info = NoFile

\* statuses of the batch service for a job that has ended
Terminal == {"completed"} \cup TerminalFailure

\* a Driver run in which no call raised finds a record whose job has ended
DriverFindsEndedJob ==
    /\ DriverRan
    /\ IsRecord(batch_info)
    /\ batch_info.batch_id # None
    /\ RecordedJob.status \in Terminal
    /\ last'.check_called
    /\ last'.check_raised = ""
    /\ last'.ret # "raised"

\* C26: a Driver run that finds a Job Record whose job has ended, with every
\* call succeeding, reconciles the job, removes the record or submits; it
\* never returns with the record in place and nothing done
C26_EndedJobMakesProgress ==
    [][DriverFindsEndedJob
       => \/ last'.check_ret = "completed_and_processed"
          \/ batch_info' = NoFile
          \/ last'.submit_called]_vars

\* C27: every job of the service that is still in flight is the job that the
\* Job Record on disk names
C27_NoOrphanJob ==
    \A b \in 1..Len(svc_jobs) :
        svc_jobs[b].status \in InFlight
        => IsRecord(batch_info) /\ batch_info.batch_id = b

\* C28: the artifact that check_batch_status wrote for a document and that
\* the skip test of the Driver finds for a candidate document holds the
\* results of that document only: no two documents share an artifact
C28_ArtifactsNotShared ==
    \A e \in Entries :
        output_file(e.pdf) \in DOMAIN outputs
        => \A p \in DOMAIN outputs[output_file(e.pdf)] :
              decode_custom_id(outputs[output_file(e.pdf)][p].request).pdf = e.pdf

\* every candidate document without an artifact has no page
RemainingWithoutPages ==
    /\ Remaining # {}
    /\ \A e \in Remaining : Len(e.pages) = 0

\* C29: a request file that a Driver run uploads holds at least one request
\* line, and a run in which every remaining document has no page uploads no
\* file and creates no job
C29_NoEmptyBatch ==
    [][DriverRan
       => /\ Uploaded => Len(UploadedFile) >= 1
          /\ RemainingWithoutPages
                => /\ ~last'.submit_called
                   /\ Len(svc_files') = Len(svc_files)
                   /\ Len(svc_jobs') = Len(svc_jobs)]_vars

\* the step saves the data of the current file / ends the run
FileSaved == ocr.pc = "tables" /\ ocr'.pc = "files"
RunFinished == ocr.pc = "files" /\ ocr'.pc = "idle"

\* the description requests that the elements of the current file need: the
\* images and the tables found in the file as it was read, but the blank ones
Requested ==
    LET read == ocr.ocr_folder[ocr.file_name]
        wanted(key) ==
            {[key |-> key, page |-> to_analyze(read, key)[i].page,
              idx |-> to_analyze(read, key)[i].idx] : i \in 1..Len(to_analyze(read, key))}
    IN  {q \in wanted("images") \cup wanted("tables") :
            element_at(read, q.page, q.idx).payload # "blank"}

\* the analysis that the saved data holds for the element of request q
SavedAnalysis(saved, q) ==
    IF q.key = "images" THEN element_at(saved, q.page, q.idx).vision_analysis
    ELSE element_at(saved, q.page, q.idx).table_analysis

\* C30: a description request that raised leaves its element without the
\* analysis key and nothing else undone: when the file is saved every other
\* element that needs a description holds its own, of the same wave and of
\* the later waves, the file's *_analyzed.json and its entry of the common
\* result are written, and the run ends with all_documents_analyzed.json
C30_FailureIsolation ==
    [][/\ FileSaved
            => /\ analyzed_file(ocr.file_name) \in DOMAIN ocr'.output_folder
               /\ ocr'.all_results[pdf_name_of(ocr.file_name)]
                    = ocr'.output_folder[analyzed_file(ocr.file_name)]
               /\ ocr.failed \subseteq Requested
               /\ \A q \in Requested :
                    SavedAnalysis(ocr'.output_folder[analyzed_file(ocr.file_name)], q)
                        = IF q \in ocr.failed THEN NoAnalysis
                          ELSE analysis_of(ocr.file_name, q.page, q.idx)
       /\ RunFinished
            => /\ AllDocumentsAnalyzed \in DOMAIN ocr'.output_folder
               /\ ocr'.output_folder[AllDocumentsAnalyzed] = ocr.all_results
               /\ \A f \in Names(ocr_files(ocr.ocr_folder)) :
                    analyzed_file(f) \in DOMAIN ocr'.output_folder]_vars

\* a run has ended after the first image request of a file failed: the other
\* images of the first wave and the image of the second wave are described
C30_Witness ==
    /\ ocr.pc = "idle"
    /\ ocr.run >= 1
    /\ ocr.failures >= 1
    /\ AllDocumentsAnalyzed \in DOMAIN ocr.output_folder
    /\ analyzed_file(OcrFileA) \in DOMAIN ocr.output_folder
    /\ \E saved \in {ocr.output_folder[analyzed_file(OcrFileA)]} :
        /\ Len(saved[1].elements) > MAX_CONCURRENT_REQUESTS
        /\ saved[1].elements[1].vision_analysis = NoAnalysis
        /\ saved[1].elements[2].vision_analysis # NoAnalysis
        /\ saved[1].elements[MAX_CONCURRENT_REQUESTS + 1].vision_analysis # NoAnalysis

====
